---------------------------- MODULE Spec2Model ----------------------------
(***************************************************************************)
(* tweakio-sdk: the per-chat rate limiter (MessageFilter) and the          *)
(* queue-fed single-writer message stores (SQL_Lite_Storage and            *)
(* SQLAlchemyStorage).                                                     *)
(***************************************************************************)
EXTENDS Integers, Sequences, FiniteSets, TLC

(***************************************************************************)
(* Bounds of the model.                                                    *)
(***************************************************************************)
MaxTime == 4
MaxBatch == 3
MaxDefer == 2
MaxIds == 2
MaxRows == 2
MaxTasks == 3
MaxMsgs == 3
MaxEnqueue == 2

\* SQLAlchemyStorage(batch_size): the writer's batch size in the model.
BatchSize == 2

\* SQLAlchemyStorage(flush_interval=...)
FlushInterval == 2

\* The writer loop's clock runs to MaxNow; at most MaxSent messages are enqueued.
MaxNow == 5
MaxSent == 3

\* The fetcher's persistence queue holds at most MaxQueued batches.
MaxQueued == 1

\* The predecessor filter's count is followed up to MaxOldCount.
MaxOldCount == 3

\* __GetBrowser__ is called at most MaxCalls times, with tries in 1..MaxStart.
MaxCalls == 3
MaxStart == 7

\* MessageFilter(LimitTime, Max_Messages_Per_Window, Window_Seconds): the
\* configuration of the one filter instance of the model.
LimitTime == 2
Max_Messages_Per_Window == 2
Window_Seconds == 2

Chats == {"c1", "c2"}

\* Optional[float]: None, or a one-element tuple holding the value.
None == <<>>
Some(x) == <<x>>

VARIABLES
    clock,        \* time.time()
    StateMap,     \* MessageFilter.StateMap : chat key -> State
    Defer_queue,  \* MessageFilter.Defer_queue, oldest entry first
    fcall,        \* the last apply()/reset() call: arguments and the exit taken
    fret,         \* what the last apply() returned
    impl,         \* which store: "lite" (SQL_Lite_Storage) or "alch" (SQLAlchemyStorage)
    conn,         \* self.conn / self._engine: "none", "open" or "closed"
    closed,       \* SQL_Lite_Storage._closed
    running,      \* SQLAlchemyStorage._running
    queue,        \* self.queue: the items put and not yet got
    unfinished,   \* self.queue's count of items put and not yet task_done()
    writer_task,  \* self._writer_task: 0 for None, else the task's index in tasks
    tasks,        \* every writer task created so far
    thread,       \* the executor thread running _sync_insert_rows: None or its msgs
    table,        \* the rows of the messages table
    closer,       \* the close_db() call: where it stands and the task it awaits
    nextId,       \* the id of the next message fetched
    accepted,     \* ids enqueue_insert() took before close_db() was called
    attempted,    \* ids handed to an insert
    dbcall,       \* the last insert of a batch: store, rows, outcome
    wnow,         \* _writer_loop: the event loop's time()
    wqueue,       \* _writer_loop: the queue, each message by its enqueue time
    wbatch,       \* _writer_loop: batch, each message by its enqueue time
    last_flush,   \* _writer_loop: last_flush
    wdeadline,    \* _writer_loop: when the pending wait_for times out
    wflush,       \* _writer_loop: the flush made by the last step, or None
    wsent,        \* _writer_loop: how many messages were enqueued
    poison,       \* the ids whose row the database rejects at every insert
    transient,    \* whether the database may fail any statement
    errors,       \* whether a flush has ended in a storage error
    late,         \* ids enqueue_insert() took after such an error
    rcall,        \* the last read of the store: the call, its value, whether it raised
    pqueue,       \* Fetcher: the batches handed to storage.enqueue_insert, not yet written
    durable,      \* Fetcher: what became of the last written batch: stored or Failed
    browser,      \* CamoufoxBrowser.browser : None or the launched context
    bcall,        \* the __GetBrowser__ call: where it stands, its tries, its launches
    ChatState,    \* MessageProcessor.ChatState : chat key -> ChatState
    DeferQueue,   \* MessageProcessor.DeferQueue, oldest entry first
    Filter_ret,   \* what the last MessageProcessor.Filter call returned
    threads,      \* the apply() call of each caller thread, statement by statement
    serial,       \* whether apply() calls run to completion one after another
    wadmit        \* sizes of the batches admitted since window_start was last set

fvars == <<clock, StateMap, Defer_queue, fcall, fret>>

\* What the stores record about storage errors.
hvars == <<errors, late>>

svars == <<impl, conn, closed, running, queue, unfinished, writer_task, tasks,
           thread, closer, nextId, accepted, attempted, hvars>>

\* The writer loop with its clock.
wvars == <<wnow, wqueue, wbatch, last_flush, wdeadline, wflush, wsent>>

\* How the database fails; fixed when it is set up.
dvars == <<poison, transient>>

\* The reads of the store.
rvars == <<rcall>>

\* The fetcher's persistence queue.
pvars == <<pqueue, durable>>

\* The browser and its launch.
bvars == <<browser, bcall>>

\* The predecessor filter, MessageProcessor.Filter.
qvars == <<ChatState, DeferQueue, Filter_ret>>

\* apply() as its callers' threads run it.
tvars == <<threads, serial, wadmit>>

\* What the filter and the stores leave alone.
xvars == <<wvars, dvars, rvars, pvars, bvars, qvars, tvars>>

\* The filter, the stores and their database.
basevars == <<fvars, svars, table, dbcall, dvars>>

\* What the writer loop with its clock leaves alone.
notwvars == <<basevars, rvars, pvars, bvars, qvars, tvars>>

\* What the reads leave alone, the table apart.
notrvars == <<fvars, svars, dbcall, dvars, wvars, pvars, bvars, qvars, tvars>>

\* What the fetcher leaves alone, the filter apart.
notpvars == <<svars, table, dbcall, dvars, wvars, rvars, bvars, qvars, tvars>>

\* What the browser leaves alone.
notbvars == <<fvars, svars, table, dbcall, wvars, dvars, rvars, pvars, qvars, tvars>>

\* What the two filters run side by side leave alone.
notqvars == <<svars, table, dbcall, wvars, dvars, rvars, pvars, bvars, tvars>>

\* What a thread inside apply() leaves alone, the filter's state apart.
nottvars == <<clock, fcall, fret, svars, table, dbcall, wvars, dvars, rvars, pvars, bvars, qvars>>

vars == <<clock, StateMap, Defer_queue, fcall, fret, impl, conn, closed, running,
          queue, unfinished, writer_task, tasks, thread, table, closer, nextId,
          accepted, attempted, dbcall, wvars, dvars, hvars, rvars, pvars, bvars, qvars, tvars>>

(***************************************************************************)
(* MessageFilter                                                           *)
(***************************************************************************)

\* A message as the filter reads it: its identity and its parent_chat.
Message(i, c) == [id |-> i, parent_chat |-> c]

\* The chat whose traffic the model follows; the other chat takes part in
\* cross-chat batches only.
FilteredChat == "c1"

\* The single-chat batches a caller may hand to apply(): 1..MaxBatch distinct
\* messages of the followed chat.
ChatBatches == {[i \in 1..n |-> Message(i, FilteredChat)] : n \in 1..MaxBatch}

\* Batches that break the single-chat precondition: two messages of two chats.
MixedBatches ==
    {<<Message(1, p[1]), Message(2, p[2])>> : p \in {q \in Chats \X Chats : q[1] # q[2]}}

Batches == ChatBatches \cup MixedBatches

\* chat._chat_key()
chat_key(c) == c

\* A reading of time.time() taken after an earlier reading t in the same call.
TimeRead(t) == {u \in t..(t + 1) : u <= MaxTime}

\* State(None, None): window_start from the default factory time.time().
NewState(t) == [defer_since |-> None, last_seen |-> None, window_start |-> t, count |-> 0]

\* State.reset()
State_reset(st, t) ==
    [st EXCEPT !.window_start = t, !.count = 0, !.defer_since = None, !.last_seen = None]

\* Python truthiness of an Optional[float]: None and 0.0 are both falsy.
Truthy(o) == o # None /\ o[1] # 0

SingleChat_self(messages) ==
    \A i \in 1..Len(messages) : messages[i].parent_chat = messages[i].parent_chat

\* all(m.parent_chat == messages[0].parent_chat for m in messages)
SingleChat(messages) ==
    \A i \in 1..Len(messages) : messages[i].parent_chat = messages[1].parent_chat

WindowExpired_gt(st, now) == now - st.window_start > Window_Seconds

\* now - state.window_start >= self.Window_Seconds
WindowExpired(st, now) == now - st.window_start >= Window_Seconds

\* The state after the "reset rate window if expired" step.
AfterWindow(st, now) ==
    IF WindowExpired(st, now) THEN [st EXCEPT !.window_start = now, !.count = 0] ELSE st

\* state.defer_since and (now - state.defer_since) > self.LimitTime
HardDropDue(st, now) == Truthy(st.defer_since) /\ now - st.defer_since[1] > LimitTime

RateLimitHit_ge(st, batch_size) == st.count + batch_size >= Max_Messages_Per_Window

\* state.count + batch_size > self.Max_Messages_Per_Window
RateLimitHit(st, batch_size) == st.count + batch_size > Max_Messages_Per_Window

DeferSinceOr_now(st, now) == Some(now)

\* state.defer_since or now
DeferSinceOr(st, now) == IF Truthy(st.defer_since) THEN st.defer_since ELSE Some(now)

BindData_first(chat, messages, now) ==
    [chat |-> chat, Messages |-> SubSeq(messages, 1, 1), seen |-> now]

\* BindData(chat, messages, now)
BindData(chat, messages, now) == [chat |-> chat, Messages |-> messages, seen |-> now]

Delivered_fitting(messages) == SubSeq(messages, 1, Max_Messages_Per_Window - 1)

\* The list a delivering exit of apply() returns.
Delivered(messages) == messages

Admit_double(st, batch_size, now) ==
    [st EXCEPT !.count = @ + 2 * batch_size, !.last_seen = Some(now)]

\* state.count += batch_size ; state.last_seen = now
Admit(st, batch_size, now) == [st EXCEPT !.count = @ + batch_size, !.last_seen = Some(now)]

Put_front(q, item) == <<item>> \o q

\* Queue.put(item) on the unbounded FIFO queue
Put(q, item) == Append(q, item)

SetState(key, st) ==
    [k \in (DOMAIN StateMap) \cup {key} |-> IF k = key THEN st ELSE StateMap[k]]

FCall(op, messages, chat, now, exit) ==
    [op |-> op, messages |-> messages, chat |-> chat, now |-> now, exit |-> exit]

\* apply([]) : returns [] before anything is read.
ApplyEmptyStep ==
    /\ fcall' = FCall("apply", <<>>, None, None, "empty")
    /\ fret' = <<>>
    /\ UNCHANGED <<clock, StateMap, Defer_queue>>

ApplyEmpty == ApplyEmptyStep /\ UNCHANGED <<svars, table, dbcall, xvars>>

\* apply(messages) with messages of more than one chat: raises MessageFilterError.
ApplyRaise(messages) ==
    /\ messages # <<>>
    /\ ~SingleChat(messages)
    /\ fcall' = FCall("apply", messages, None, None, "raise")
    /\ fret' = <<>>
    /\ UNCHANGED <<clock, StateMap, Defer_queue, svars, table, dbcall, xvars>>

\* apply(messages) past the single-chat check: what it does to the filter.
ApplyChatStep(messages) ==
    /\ messages # <<>>
    /\ SingleChat(messages)
    /\ LET chat == messages[1].parent_chat
           key == chat_key(chat)
           now == clock
           batch_size == Len(messages)
       IN \E t1 \in TimeRead(now) :
            LET st0 == IF key \in DOMAIN StateMap THEN StateMap[key] ELSE NewState(t1)
                st1 == AfterWindow(st0, now)
            IN IF HardDropDue(st1, now)
               THEN \E t2 \in TimeRead(t1) :
                      /\ StateMap' = SetState(key, State_reset(st1, t2))
                      /\ clock' = t2
                      /\ Defer_queue' = Defer_queue
                      /\ fret' = Delivered(messages)
                      /\ fcall' = FCall("apply", messages, Some(chat), Some(now), "harddrop")
               ELSE /\ clock' = t1
                    /\ IF RateLimitHit(st1, batch_size)
                       THEN /\ Len(Defer_queue) < MaxDefer
                            /\ StateMap' = SetState(key,
                                   [st1 EXCEPT !.defer_since = DeferSinceOr(st1, now)])
                            /\ Defer_queue' = Put(Defer_queue, BindData(chat, messages, now))
                            /\ fret' = <<>>
                            /\ fcall' = FCall("apply", messages, Some(chat), Some(now), "defer")
                       ELSE /\ StateMap' = SetState(key, Admit(st1, batch_size, now))
                            /\ Defer_queue' = Defer_queue
                            /\ fret' = Delivered(messages)
                            /\ fcall' = FCall("apply", messages, Some(chat), Some(now), "deliver")

\* apply(messages) past the single-chat check.
ApplyChat(messages) == ApplyChatStep(messages) /\ UNCHANGED <<svars, table, dbcall, xvars>>

\* MessageFilter.apply
Apply ==
    \/ ApplyEmpty
    \/ \E messages \in Batches : ApplyRaise(messages)
    \/ \E messages \in Batches : ApplyChat(messages)

\* An external consumer calls reset() on a chat's State.
ExternalReset ==
    \E key \in DOMAIN StateMap : \E t \in TimeRead(clock) :
        /\ StateMap' = SetState(key, State_reset(StateMap[key], t))
        /\ clock' = t
        /\ fcall' = FCall("reset", <<>>, Some(key), None, "reset")
        /\ fret' = <<>>
        /\ UNCHANGED <<Defer_queue, svars, table, dbcall, xvars>>

\* Time passes between calls.
Tick ==
    /\ clock < MaxTime
    /\ clock' = clock + 1
    /\ UNCHANGED <<StateMap, Defer_queue, fcall, fret, svars, table, dbcall, xvars>>

FilterInit ==
    /\ clock = 0
    /\ StateMap = <<>>
    /\ Defer_queue = <<>>
    /\ fcall = FCall("none", <<>>, None, None, "none")
    /\ fret = <<>>

FilterNext == Apply \/ ExternalReset \/ Tick

(***************************************************************************)
(* The messages table and the two stores' inserts                          *)
(***************************************************************************)

\* A message as the stores read it: its data_id / message_id and its text.
StoreMsg(i, txt) == [data_id |-> i, text |-> txt]

StoreMsgs == {StoreMsg(i, txt) : i \in 1..MaxIds, txt \in {"a", "b"}}

\* The batches handed to an insert: 1..MaxRows messages, ids possibly repeated.
InsertBatches == UNION {[1..n -> StoreMsgs] : n \in 1..MaxRows}

\* Message.GetTraceObj(): the row tuple, data_id first.
TraceObj(m) == [id |-> m.data_id, text |-> m.text]

\* SQLAlchemyStorage._message_to_model
MessageToModel(m) == [id |-> m.data_id, text |-> m.text]

HasId(tbl, i) == \E r \in tbl : r.id = i

InsertOrReplaceRow(tbl, row) == {r \in tbl : r.id # row.id} \cup {row}

\* INSERT OR IGNORE of one row into messages(data_id TEXT PRIMARY KEY, ...)
InsertOrIgnoreRow(tbl, row) == IF HasId(tbl, row.id) THEN tbl ELSE tbl \cup {row}

\* conn.executemany(q, rows); conn.commit()
RECURSIVE ExecuteMany(_, _)
ExecuteMany(tbl, rows) ==
    IF rows = <<>> THEN tbl
    ELSE ExecuteMany(InsertOrIgnoreRow(tbl, Head(rows)), Tail(rows))

\* _sync_insert_rows after the commit: the ids of the batch are selected back
\* and `m.Failed = True` is set for each id that is not among them.
MarkedFailed(tbl, rows) == {rows[k].id : k \in {j \in 1..Len(rows) : ~HasId(tbl, rows[j].id)}}

\* SQL_Lite_Storage._sync_insert_rows: every exception is caught and logged.
\* error: the insert did not complete; failed: the ids whose Failed flag is set.
SyncInsertRows(tbl, rows, fault) ==
    IF fault THEN [table |-> tbl, raised |-> FALSE, error |-> TRUE, failed |-> {}]
    ELSE [table |-> ExecuteMany(tbl, rows), raised |-> FALSE, error |-> FALSE,
          failed |-> MarkedFailed(ExecuteMany(tbl, rows), rows)]

\* The unique key on message_id: the commit of rows fails with IntegrityError
\* when an id is already stored or occurs twice among the rows.
UniqueViolation(tbl, rows) ==
    \/ \E k \in 1..Len(rows) : HasId(tbl, rows[k].id)
    \/ \E k \in 1..Len(rows) : \E l \in 1..Len(rows) : k # l /\ rows[k].id = rows[l].id

\* single_session.add(model); commit(): IntegrityError is skipped.
AddSingle(tbl, row) == IF HasId(tbl, row.id) THEN tbl ELSE tbl \cup {row}

\* The one-by-one fallback after IntegrityError.
RECURSIVE InsertOneByOne(_, _)
InsertOneByOne(tbl, rows) ==
    IF rows = <<>> THEN tbl
    ELSE InsertOneByOne(AddSingle(tbl, Head(rows)), Tail(rows))

\* SQLAlchemyStorage._insert_batch_internally past the initialization check:
\* nothing to do without models, else add_all + commit, the fallback on
\* IntegrityError, StorageError otherwise.  No path sets a Failed flag.
InsertBatchAlch(tbl, rows, fault) ==
    IF rows = <<>> THEN [table |-> tbl, raised |-> FALSE, error |-> FALSE, failed |-> {}]
    ELSE IF fault THEN [table |-> tbl, raised |-> TRUE, error |-> TRUE, failed |-> {}]
    ELSE IF UniqueViolation(tbl, rows)
         THEN [table |-> InsertOneByOne(tbl, rows), raised |-> FALSE, error |-> FALSE,
               failed |-> {}]
         ELSE [table |-> tbl \cup {rows[k] : k \in 1..Len(rows)}, raised |-> FALSE,
               error |-> FALSE, failed |-> {}]

\* rows = await asyncio.gather(*(m.GetTraceObj() for m in msgs))
Rows(msgs) == [k \in 1..Len(msgs) |-> TraceObj(msgs[k])]

\* message_models: one model per message, in order.
MessageModels(msgs) == [k \in 1..Len(msgs) |-> MessageToModel(msgs[k])]

\* One insert of msgs by store i; fault: the database fails this statement.
InsertBy(i, tbl, msgs, fault) ==
    IF i = "lite" THEN SyncInsertRows(tbl, Rows(msgs), fault)
    ELSE InsertBatchAlch(tbl, MessageModels(msgs), fault)

\* The messages of msgs whose position is not in bad, in order.
RECURSIVE Without(_, _, _)
Without(msgs, bad, k) ==
    IF k > Len(msgs) THEN <<>>
    ELSE IF k \in bad THEN Without(msgs, bad, k + 1)
    ELSE <<msgs[k]>> \o Without(msgs, bad, k + 1)

\* One insert of msgs by store i when reading the messages at the positions
\* bad raises: SQL_Lite_Storage's gather(GetTraceObj) raises and nothing is
\* inserted; SQLAlchemyStorage logs the failed _message_to_model and goes on
\* with the other messages.
InsertChecked(i, tbl, msgs, fault, bad) ==
    IF i = "lite"
    THEN IF bad # {} THEN [table |-> tbl, raised |-> TRUE, error |-> TRUE, failed |-> {}]
         ELSE SyncInsertRows(tbl, Rows(msgs), fault)
    ELSE InsertBatchAlch(tbl, MessageModels(Without(msgs, bad, 1)), fault)

DbCall(i, msgs, r) ==
    [impl |-> i, msgs |-> msgs, raised |-> r.raised, error |-> r.error, failed |-> r.failed]

\* A flush: _insert_batch_internally(msgs) of either store, on an open
\* database that fails no statement.
Flush ==
    \E i \in {"lite", "alch"} : \E msgs \in InsertBatches :
        LET r == InsertBy(i, table, msgs, FALSE)
        IN /\ table' = r.table
           /\ dbcall' = DbCall(i, msgs, r)
           /\ UNCHANGED <<fvars, svars, xvars>>

\* A flush on a database that may fail the statement, of messages some of
\* which may not be readable.
FlushChecked ==
    \E i \in {"lite", "alch"} : \E msgs \in InsertBatches : \E fault \in BOOLEAN :
        \E bad \in SUBSET (1..Len(msgs)) :
            LET r == InsertChecked(i, table, msgs, fault, bad)
            IN /\ table' = r.table
               /\ dbcall' = DbCall(i, msgs, r)
               /\ UNCHANGED <<fvars, svars, xvars>>

NoDbCall ==
    DbCall("none", <<>>, [raised |-> FALSE, error |-> FALSE, failed |-> {}])

(***************************************************************************)
(* The stores: queue, writer task, close_db                                *)
(***************************************************************************)

\* A writer task: where its coroutine is suspended, the batch it holds, whether
\* cancel() was called on it, and how it ended.
Task(pc, batch) == [pc |-> pc, batch |-> batch, cancel |-> FALSE, out |-> "none"]

NewTask == Task("new", <<>>)

DoneTask(out) == [pc |-> "done", batch |-> <<>>, cancel |-> FALSE, out |-> out]

\* task.done()
IsDone(t) == tasks[t].pc = "done"

Alive == {t \in 1..Len(tasks) : ~IsDone(t)}

Ids(msgs) == {msgs[k].data_id : k \in 1..Len(msgs)}

\* The k messages of the next fetch.
Fetched(k) == [j \in 1..k |-> StoreMsg(nextId + j - 1, "a")]

Closer(pc, t) == [pc |-> pc, task |-> t]

\* task.cancel(): a finished task is left alone.
Cancel(t) == IF IsDone(t) THEN tasks ELSE [tasks EXCEPT ![t].cancel = TRUE]

\* cancel() was called on t and t has not yet been resumed with it.
Cancelling(t) == ~IsDone(t) /\ tasks[t].cancel

------------------------------------------------------------------------------
\* SQL_Lite_Storage

\* self._writer_task is None or self._writer_task.done()
LiteNeedsWriter == writer_task = 0 \/ IsDone(writer_task)

\* SQL_Lite_Storage.start_writer
LiteStartWriter ==
    /\ impl = "lite"
    /\ Len(tasks) < MaxTasks
    /\ IF LiteNeedsWriter
       THEN /\ tasks' = Append(tasks, NewTask)
            /\ writer_task' = Len(tasks) + 1
       ELSE UNCHANGED <<tasks, writer_task>>
    /\ UNCHANGED <<fvars, xvars, hvars, dbcall, impl, conn, closed, running, queue, unfinished, thread, table,
                   closer, nextId, accepted, attempted>>

\* SQL_Lite_Storage.enqueue_insert(msgs) with k messages:
\* `if not msgs or self._closed: return`, else start_writer() and put.
LiteEnqueue(k) ==
    /\ impl = "lite"
    /\ nextId + k - 1 <= MaxMsgs
    /\ IF k = 0 \/ closed
       THEN UNCHANGED <<tasks, writer_task, queue, unfinished, nextId, accepted, late>>
       ELSE /\ LiteNeedsWriter => Len(tasks) < MaxTasks
            /\ IF LiteNeedsWriter
               THEN /\ tasks' = Append(tasks, NewTask)
                    /\ writer_task' = Len(tasks) + 1
               ELSE UNCHANGED <<tasks, writer_task>>
            /\ queue' = Append(queue, Fetched(k))
            /\ unfinished' = unfinished + 1
            /\ nextId' = nextId + k
            /\ accepted' = accepted \cup Ids(Fetched(k))
            /\ late' = IF errors THEN late \cup Ids(Fetched(k)) ELSE late
    /\ UNCHANGED <<fvars, xvars, errors, dbcall, impl, conn, closed, running, thread, table, closer, attempted>>

\* The top of _writer_loop: `while not self._closed`, then queue.get(), which
\* returns at once when an item is there and suspends otherwise.
LiteLoopTop(t, q) ==
    IF closed THEN [task |-> DoneTask("ok"), queue |-> q]
    ELSE IF q # <<>> THEN [task |-> Task("gather", Head(q)), queue |-> Tail(q)]
    ELSE [task |-> Task("get", <<>>), queue |-> q]

\* The task's first step.
LiteWriterStart(t) ==
    /\ impl = "lite"
    /\ tasks[t].pc = "new" /\ ~tasks[t].cancel
    /\ LET r == LiteLoopTop(t, queue)
       IN /\ tasks' = [tasks EXCEPT ![t] = r.task]
          /\ queue' = r.queue
    /\ UNCHANGED <<fvars, xvars, hvars, dbcall, impl, conn, closed, running, unfinished, writer_task, thread, table,
                   closer, nextId, accepted, attempted>>

\* queue.get() returns an item to the suspended task.
LiteWriterGet(t) ==
    /\ impl = "lite"
    /\ tasks[t].pc = "get" /\ ~tasks[t].cancel
    /\ queue # <<>>
    /\ tasks' = [tasks EXCEPT ![t] = Task("gather", Head(queue))]
    /\ queue' = Tail(queue)
    /\ UNCHANGED <<fvars, xvars, hvars, dbcall, impl, conn, closed, running, unfinished, writer_task, thread, table,
                   closer, nextId, accepted, attempted>>

\* _insert_batch_internally: the rows are gathered and _sync_insert_rows is
\* handed to the executor thread.
LiteWriterSubmit(t) ==
    /\ impl = "lite"
    /\ tasks[t].pc = "gather" /\ ~tasks[t].cancel
    /\ thread = None
    /\ thread' = Some(tasks[t].batch)
    /\ attempted' = attempted \cup Ids(tasks[t].batch)
    /\ tasks' = [tasks EXCEPT ![t].pc = "exec"]
    /\ UNCHANGED <<fvars, xvars, hvars, dbcall, impl, conn, closed, running, queue, unfinished, writer_task, table,
                   closer, nextId, accepted>>

\* The executor's future is done: task_done(), and round the loop.
LiteWriterInserted(t) ==
    /\ impl = "lite"
    /\ tasks[t].pc = "exec" /\ ~tasks[t].cancel
    /\ thread = None
    /\ unfinished' = unfinished - 1
    /\ LET r == LiteLoopTop(t, queue)
       IN /\ tasks' = [tasks EXCEPT ![t] = r.task]
          /\ queue' = r.queue
    /\ UNCHANGED <<fvars, xvars, hvars, dbcall, impl, conn, closed, running, writer_task, thread, table,
                   closer, nextId, accepted, attempted>>

\* The task is resumed with CancelledError: a task that never ran ends
\* cancelled; in the loop, `finally: task_done()` runs for a got item and
\* `except CancelledError: break` ends the task.  Cancelling the awaited
\* executor future stops _sync_insert_rows only when the worker thread has
\* not picked it up yet; a call that is already running runs on.
LiteWriterCancelled(t) ==
    /\ impl = "lite"
    /\ Cancelling(t)
    /\ tasks' = [tasks EXCEPT ![t] =
                    DoneTask(IF tasks[t].pc = "new" THEN "cancelled" ELSE "ok")]
    /\ unfinished' = IF tasks[t].pc \in {"gather", "exec"}
                     THEN unfinished - 1 ELSE unfinished
    /\ \E picked \in BOOLEAN :
         IF tasks[t].pc = "exec" /\ thread # None /\ ~picked
         THEN /\ thread' = None
              /\ attempted' = attempted \ Ids(tasks[t].batch)
         ELSE UNCHANGED <<thread, attempted>>
    /\ UNCHANGED <<fvars, xvars, hvars, dbcall, impl, conn, closed, running, queue, writer_task, table,
                   closer, nextId, accepted>>

\* The faults the database may add to an insert.
Faults == IF transient THEN BOOLEAN ELSE {FALSE}

\* The insert of msgs fails: the database fails the statement, the
\* connection is not open, or a row of the batch is one it rejects.
Fails(msgs, fault) == fault \/ conn # "open" \/ Ids(msgs) \cap poison # {}

\* The executor thread runs _sync_insert_rows; on a closed connection the
\* statement fails and the exception is logged.
LiteThreadRun ==
    /\ impl = "lite"
    /\ thread # None
    /\ \E fault \in Faults :
         LET r == InsertBy("lite", table, thread[1], Fails(thread[1], fault))
         IN /\ table' = r.table
            /\ errors' = (errors \/ r.error)
    /\ thread' = None
    /\ UNCHANGED <<fvars, xvars, late, dbcall, impl, conn, closed, running, queue, unfinished,
                   writer_task, tasks, closer, nextId, accepted, attempted>>

\* close_db past the writer: `if not self.queue.empty(): await self.queue.join()`
\* and conn.close().
LiteCloseTail(joined) ==
    IF queue = <<>> \/ joined
    THEN [conn |-> "closed", closer |-> Closer("returned", 0)]
    ELSE [conn |-> conn, closer |-> Closer("join", 0)]

\* SQL_Lite_Storage.close_db up to its first suspension.
LiteCloseCall ==
    /\ impl = "lite"
    /\ closer.pc = "idle"
    /\ closed' = TRUE
    /\ IF writer_task # 0 /\ ~IsDone(writer_task)
       THEN /\ tasks' = Cancel(writer_task)
            /\ closer' = Closer("awaitTask", writer_task)
            /\ conn' = conn
       ELSE /\ tasks' = tasks
            /\ closer' = LiteCloseTail(FALSE).closer
            /\ conn' = LiteCloseTail(FALSE).conn
    /\ UNCHANGED <<fvars, xvars, hvars, dbcall, impl, running, queue, unfinished, writer_task, thread, table,
                   nextId, accepted, attempted>>

\* close_db resumes: the awaited task is done, or join() returns.
LiteCloseResume ==
    /\ impl = "lite"
    /\ \/ closer.pc = "awaitTask" /\ IsDone(closer.task)
       \/ closer.pc = "join" /\ unfinished = 0
    /\ closer' = LiteCloseTail(closer.pc = "join").closer
    /\ conn' = LiteCloseTail(closer.pc = "join").conn
    /\ UNCHANGED <<fvars, xvars, hvars, dbcall, impl, closed, running, queue, unfinished, writer_task, tasks, thread,
                   table, nextId, accepted, attempted>>

------------------------------------------------------------------------------
\* SQLAlchemyStorage

\* SQLAlchemyStorage.init_db
AlchInitDb ==
    /\ impl = "alch"
    /\ conn = "none"
    /\ conn' = "open"
    /\ UNCHANGED <<fvars, xvars, hvars, dbcall, impl, closed, running, queue, unfinished, writer_task, tasks, thread,
                   table, closer, nextId, accepted, attempted>>

\* self._writer_task and not self._writer_task.done()
AlchWriterRunning == writer_task # 0 /\ ~IsDone(writer_task)

\* SQLAlchemyStorage.start_writer
AlchStartWriter ==
    /\ impl = "alch"
    /\ Len(tasks) < MaxTasks
    /\ IF AlchWriterRunning
       THEN UNCHANGED <<tasks, writer_task, running>>
       ELSE /\ running' = TRUE
            /\ tasks' = Append(tasks, NewTask)
            /\ writer_task' = Len(tasks) + 1
    /\ UNCHANGED <<fvars, xvars, hvars, dbcall, impl, conn, closed, queue, unfinished, thread, table,
                   closer, nextId, accepted, attempted>>

\* SQLAlchemyStorage.enqueue_insert(msgs) with k messages: `if not msgs:
\* return`, else one put per message.
AlchEnqueue(k) ==
    /\ impl = "alch"
    /\ nextId + k - 1 <= MaxMsgs
    /\ queue' = queue \o Fetched(k)
    /\ unfinished' = unfinished + k
    /\ nextId' = nextId + k
    /\ late' = IF errors /\ closer.pc = "idle" THEN late \cup Ids(Fetched(k)) ELSE late
    /\ accepted' = IF closer.pc = "idle" THEN accepted \cup Ids(Fetched(k)) ELSE accepted
    /\ UNCHANGED <<fvars, xvars, errors, dbcall, impl, conn, closed, running, writer_task, tasks, thread, table,
                   closer, attempted>>

\* `while self._running` with batch b in hand; past the loop, the rest is
\* flushed: _insert_batch_internally raises at once without a session factory.
AlchLoopTop(b) ==
    IF running THEN Task("wait", b)
    ELSE IF b = <<>> THEN DoneTask("ok")
    ELSE IF conn = "open" THEN Task("final", b)
    ELSE DoneTask("error")

\* `if should_flush and batch`: the insert is begun (StorageError without a
\* session factory, then `except Exception` and sleep(1)), or the loop goes on.
AlchFlushOrLoop(b, flush) ==
    IF flush /\ b # <<>>
    THEN IF conn = "open" THEN Task("insert", b) ELSE Task("sleep", b)
    ELSE AlchLoopTop(b)

\* The ids handed to _insert_batch_internally on the way to task record r.
AlchAttempts(b, flush) ==
    IF b # <<>> /\ (flush \/ ~running) THEN Ids(b) ELSE {}

\* The task's first step: up to wait_for(queue.get(), flush_interval).
AlchWriterStart(t) ==
    /\ impl = "alch"
    /\ tasks[t].pc = "new" /\ ~tasks[t].cancel
    /\ tasks' = [tasks EXCEPT ![t] = AlchLoopTop(<<>>)]
    /\ UNCHANGED <<fvars, xvars, hvars, dbcall, impl, conn, closed, running, queue, unfinished, writer_task, thread,
                   table, closer, nextId, accepted, attempted>>

\* One round of the loop on a got message: append, task_done(), should_flush
\* (the batch is full, or flush_interval has passed since last_flush).
AlchGot(t) ==
    LET b == Append(tasks[t].batch, Head(queue))
    IN \E elapsed \in BOOLEAN :
         LET flush == Len(b) >= BatchSize \/ elapsed
         IN /\ tasks' = [tasks EXCEPT ![t] = AlchFlushOrLoop(b, flush)]
            /\ attempted' = attempted \cup AlchAttempts(b, flush)
            /\ queue' = Tail(queue)
            /\ unfinished' = unfinished - 1

AlchWriterGet(t) ==
    /\ impl = "alch"
    /\ tasks[t].pc = "wait" /\ ~tasks[t].cancel
    /\ queue # <<>>
    /\ AlchGot(t)
    /\ UNCHANGED <<fvars, xvars, hvars, dbcall, impl, conn, closed, running, writer_task, thread, table,
                   closer, nextId, accepted>>

\* wait_for times out on an empty queue with a batch in hand: flush_interval
\* has passed, the batch is flushed.
AlchWriterTimeout(t) ==
    /\ impl = "alch"
    /\ tasks[t].pc = "wait" /\ ~tasks[t].cancel
    /\ queue = <<>>
    /\ tasks[t].batch # <<>>
    /\ tasks' = [tasks EXCEPT ![t] = AlchFlushOrLoop(tasks[t].batch, TRUE)]
    /\ attempted' = attempted \cup AlchAttempts(tasks[t].batch, TRUE)
    /\ UNCHANGED <<fvars, xvars, hvars, dbcall, impl, conn, closed, running, queue, unfinished, writer_task, thread,
                   table, closer, nextId, accepted>>

\* The commit of _insert_batch_internally returns: batch.clear() on success,
\* `except Exception` and sleep(1), the batch kept, on StorageError.
AlchWriterInserted(t) ==
    /\ impl = "alch"
    /\ tasks[t].pc = "insert" /\ ~tasks[t].cancel
    /\ \E fault \in Faults :
         LET r == InsertBy("alch", table, tasks[t].batch, Fails(tasks[t].batch, fault))
         IN /\ table' = r.table
            /\ errors' = (errors \/ r.error)
            /\ tasks' = [tasks EXCEPT ![t] =
                            IF r.raised THEN Task("sleep", tasks[t].batch)
                            ELSE AlchLoopTop(<<>>)]
    /\ UNCHANGED <<fvars, xvars, late, dbcall, impl, conn, closed, running, queue, unfinished, writer_task, thread,
                   closer, nextId, accepted, attempted>>

\* sleep(1) after a logged error is over.
AlchWriterSlept(t) ==
    /\ impl = "alch"
    /\ tasks[t].pc = "sleep" /\ ~tasks[t].cancel
    /\ tasks' = [tasks EXCEPT ![t] = AlchLoopTop(tasks[t].batch)]
    /\ attempted' = attempted \cup AlchAttempts(tasks[t].batch, FALSE)
    /\ UNCHANGED <<fvars, xvars, hvars, dbcall, impl, conn, closed, running, queue, unfinished, writer_task, thread,
                   table, closer, nextId, accepted>>

\* The flush past the loop returns; a StorageError ends the task.
AlchWriterFinal(t) ==
    /\ impl = "alch"
    /\ tasks[t].pc = "final" /\ ~tasks[t].cancel
    /\ \E fault \in Faults :
         LET r == InsertBy("alch", table, tasks[t].batch, Fails(tasks[t].batch, fault))
         IN /\ table' = r.table
            /\ errors' = (errors \/ r.error)
            /\ tasks' = [tasks EXCEPT ![t] = DoneTask(IF r.raised THEN "error" ELSE "ok")]
    /\ UNCHANGED <<fvars, xvars, late, dbcall, impl, conn, closed, running, queue, unfinished, writer_task, thread,
                   closer, nextId, accepted, attempted>>

\* The task is resumed with CancelledError, which no `except Exception`
\* catches: the coroutine ends there, the batch in hand with it.
AlchWriterCancelled(t) ==
    /\ impl = "alch"
    /\ Cancelling(t)
    /\ tasks' = [tasks EXCEPT ![t] = DoneTask("cancelled")]
    /\ UNCHANGED <<fvars, xvars, hvars, dbcall, impl, conn, closed, running, queue, unfinished, writer_task, thread,
                   table, closer, nextId, accepted, attempted>>

\* wait_for of Python 3.9 to 3.11: cancelled when queue.get() has just
\* completed, it returns the message and the cancellation is lost.
AlchWriterCancelLost(t) ==
    /\ impl = "alch"
    /\ Cancelling(t)
    /\ tasks[t].pc = "wait"
    /\ queue # <<>>
    /\ AlchGot(t)
    /\ UNCHANGED <<fvars, xvars, hvars, dbcall, impl, conn, closed, running, writer_task, thread, table,
                   closer, nextId, accepted>>

\* engine.dispose()
Dispose == IF conn = "open" THEN "closed" ELSE conn

\* close_db past `await self._writer_task` on a finished task t: the task's
\* StorageError leaves close_db at once; otherwise self._writer_task = None
\* and the engine is disposed.
AlchCloseTail(t) ==
    IF tasks[t].out = "error"
    THEN [closer |-> Closer("raised", 0), writer_task |-> writer_task, conn |-> conn]
    ELSE [closer |-> Closer("returned", 0), writer_task |-> 0, conn |-> Dispose]

\* SQLAlchemyStorage.close_db up to its first suspension: awaiting a task
\* that is already done does not suspend.
AlchCloseCall ==
    /\ impl = "alch"
    /\ closer.pc = "idle"
    /\ running' = FALSE
    /\ IF writer_task = 0
       THEN /\ closer' = Closer("returned", 0)
            /\ conn' = Dispose
            /\ UNCHANGED <<tasks, writer_task>>
       ELSE IF IsDone(writer_task)
       THEN /\ closer' = AlchCloseTail(writer_task).closer
            /\ writer_task' = AlchCloseTail(writer_task).writer_task
            /\ conn' = AlchCloseTail(writer_task).conn
            /\ UNCHANGED tasks
       ELSE /\ tasks' = Cancel(writer_task)
            /\ closer' = Closer("awaitTask", writer_task)
            /\ UNCHANGED <<writer_task, conn>>
    /\ UNCHANGED <<fvars, xvars, hvars, dbcall, impl, closed, queue, unfinished, thread, table,
                   nextId, accepted, attempted>>

\* close_db resumes when the awaited task is done.
AlchCloseResume ==
    /\ impl = "alch"
    /\ closer.pc = "awaitTask" /\ IsDone(closer.task)
    /\ closer' = AlchCloseTail(closer.task).closer
    /\ writer_task' = AlchCloseTail(closer.task).writer_task
    /\ conn' = AlchCloseTail(closer.task).conn
    /\ UNCHANGED <<fvars, xvars, hvars, dbcall, impl, closed, running, queue, unfinished, tasks, thread, table,
                   nextId, accepted, attempted>>

------------------------------------------------------------------------------

StoreInit ==
    /\ impl \in {"lite", "alch"}
    /\ conn = IF impl = "lite" THEN "open" ELSE "none"
    /\ closed = FALSE
    /\ running = FALSE
    /\ queue = <<>>
    /\ unfinished = 0
    /\ writer_task = 0
    /\ tasks = <<>>
    /\ thread = None
    /\ closer = Closer("idle", 0)
    /\ nextId = 1
    /\ accepted = {}
    /\ attempted = {}
    /\ errors = FALSE
    /\ late = {}

\* What the writer tasks, the executor thread and a begun close_db() do.
StoreRun ==
    \/ \E t \in 1..Len(tasks) : LiteWriterStart(t)
    \/ \E t \in 1..Len(tasks) : LiteWriterGet(t)
    \/ \E t \in 1..Len(tasks) : LiteWriterSubmit(t)
    \/ \E t \in 1..Len(tasks) : LiteWriterInserted(t)
    \/ \E t \in 1..Len(tasks) : LiteWriterCancelled(t)
    \/ \E t \in 1..Len(tasks) : AlchWriterStart(t)
    \/ \E t \in 1..Len(tasks) : AlchWriterGet(t)
    \/ \E t \in 1..Len(tasks) : AlchWriterTimeout(t)
    \/ \E t \in 1..Len(tasks) : AlchWriterInserted(t)
    \/ \E t \in 1..Len(tasks) : AlchWriterSlept(t)
    \/ \E t \in 1..Len(tasks) : AlchWriterFinal(t)
    \/ \E t \in 1..Len(tasks) : AlchWriterCancelled(t)
    \/ \E t \in 1..Len(tasks) : AlchWriterCancelLost(t)
    \/ LiteThreadRun
    \/ LiteCloseResume
    \/ AlchCloseResume

\* The calls of the store's users.
StoreCalls ==
    \/ LiteStartWriter
    \/ \E k \in 0..MaxEnqueue : LiteEnqueue(k)
    \/ LiteCloseCall
    \/ AlchInitDb
    \/ AlchStartWriter
    \/ \E k \in 0..MaxEnqueue : AlchEnqueue(k)
    \/ AlchCloseCall

StoreNext == StoreRun \/ StoreCalls

(***************************************************************************)
(* SQLAlchemyStorage._writer_loop with its clock                           *)
(***************************************************************************)

\* `should_flush`: len(batch) >= batch_size, or batch and
\* current_time - last_flush >= flush_interval; then `if should_flush and batch`.
ShouldFlush(batch, current_time) ==
    /\ batch # <<>>
    /\ \/ Len(batch) >= BatchSize
       \/ current_time - last_flush >= FlushInterval

\* The rest of one round of the loop with batch in hand: the flush (the
\* insert succeeds), batch.clear() and last_flush = current_time, or nothing;
\* then the next wait_for(queue.get(), timeout=flush_interval).
WriterRound(batch) ==
    /\ IF ShouldFlush(batch, wnow)
       THEN /\ wflush' = Some([at |-> wnow, batch |-> batch])
            /\ wbatch' = <<>>
            /\ last_flush' = wnow
       ELSE /\ wflush' = None
            /\ wbatch' = batch
            /\ last_flush' = last_flush
    /\ wdeadline' = wnow + FlushInterval

\* enqueue_insert([m]) at the present time.
WriterEnqueue ==
    /\ wsent < MaxSent
    /\ wsent' = wsent + 1
    /\ wqueue' = Append(wqueue, wnow)
    /\ UNCHANGED <<wnow, wbatch, last_flush, wdeadline, wflush, notwvars>>

\* queue.get() returns a message: batch.append(msg), task_done().
WriterGet ==
    /\ wqueue # <<>>
    /\ wqueue' = Tail(wqueue)
    /\ WriterRound(Append(wbatch, Head(wqueue)))
    /\ UNCHANGED <<wnow, wsent, notwvars>>

\* wait_for times out: `except asyncio.TimeoutError: pass`.
WriterTimeout ==
    /\ wnow = wdeadline
    /\ WriterRound(wbatch)
    /\ UNCHANGED <<wnow, wqueue, wsent, notwvars>>

\* Time passes while the writer waits: it has no message to get and its
\* timeout is not due.
WriterTick ==
    /\ wnow < MaxNow
    /\ wqueue = <<>>
    /\ wnow < wdeadline
    /\ wnow' = wnow + 1
    /\ wflush' = None
    /\ UNCHANGED <<wqueue, wbatch, last_flush, wdeadline, wsent, notwvars>>

\* _writer_loop up to its first wait_for, started at time 0.
WriterInit ==
    /\ wnow = 0
    /\ wqueue = <<>>
    /\ wbatch = <<>>
    /\ last_flush = 0
    /\ wdeadline = FlushInterval
    /\ wflush = None
    /\ wsent = 0

WriterNext == WriterEnqueue \/ WriterGet \/ WriterTimeout \/ WriterTick

(***************************************************************************)
(* The reads: check_message_if_exists and get_all_messages                 *)
(***************************************************************************)

\* What a read returns: its value, or that it raised.
Returned(v) == [value |-> v, raised |-> FALSE]

Raised == [value |-> None, raised |-> TRUE]

\* The states of the connection a read can meet: SQL_Lite_Storage connects
\* in its constructor, SQLAlchemyStorage in init_db().
ReadConns(i) == IF i = "lite" THEN {"open", "closed"} ELSE {"none", "open", "closed"}

\* The statement of a read fails: the connection is not open, or the
\* database fails it.
ReadFails(c, fault) == c # "open" \/ fault

\* SQL_Lite_Storage.check_message_if_exists: `except Exception: return False`.
LiteCheckExists(tbl, id, c, fault) ==
    IF ReadFails(c, fault) THEN Returned(FALSE) ELSE Returned(HasId(tbl, id))

\* SQL_Lite_Storage.get_all_messages: no exception is caught.
LiteGetAll(tbl, c, fault) ==
    IF ReadFails(c, fault) THEN Raised ELSE Returned(tbl)

\* SQLAlchemyStorage.check_message_if_exists and its _async: False without
\* a session factory and on every exception.
AlchCheckExists(tbl, id, c, fault) ==
    IF c # "open" THEN Returned(FALSE)
    ELSE IF fault THEN Returned(FALSE)
    ELSE Returned(HasId(tbl, id))

\* SQLAlchemyStorage.get_all_messages and its _async: [] without a session
\* factory and on every exception.
AlchGetAll(tbl, c, fault) ==
    IF c # "open" THEN Returned({})
    ELSE IF fault THEN Returned({})
    ELSE Returned(tbl)

ReadOf(i, op, tbl, id, c, fault) ==
    IF i = "lite"
    THEN IF op = "exists" THEN LiteCheckExists(tbl, id, c, fault) ELSE LiteGetAll(tbl, c, fault)
    ELSE IF op = "exists" THEN AlchCheckExists(tbl, id, c, fault) ELSE AlchGetAll(tbl, c, fault)

RCall(i, op, id, failing, r) ==
    [impl |-> i, op |-> op, id |-> id, failing |-> failing, value |-> r.value,
     raised |-> r.raised]

\* One read of the store, in any state of its connection.
Read ==
    \E i \in {"lite", "alch"} : \E op \in {"exists", "all"} : \E id \in 1..MaxIds :
        \E c \in ReadConns(i) : \E fault \in BOOLEAN :
            /\ rcall' = RCall(i, op, id, ReadFails(c, fault), ReadOf(i, op, table, id, c, fault))
            /\ UNCHANGED <<table, notrvars>>

ReadInit == rcall = RCall("none", "none", 0, FALSE, Returned(None))

ReadNext == Flush \/ Read

(***************************************************************************)
(* MessageProcessor.Fetcher: storage.enqueue_insert, then filter.apply     *)
(***************************************************************************)

\* What _get_wrapped_Messages(chat) returns: the messages of the open chat
\* that have a data_id, possibly none.
FetchedLists == ChatBatches \cup {<<>>}

FetchEnqueue_none(q, msgList) == q

\* await self.storage.enqueue_insert(msgList): a no-op on an empty list.
FetchEnqueue(q, msgList) == IF msgList = <<>> THEN q ELSE Append(q, msgList)

\* The exit apply() takes for n messages of a chat in state st at time now.
DecisionOf(st, n, now) ==
    IF HardDropDue(AfterWindow(st, now), now) THEN "harddrop"
    ELSE IF RateLimitHit(AfterWindow(st, now), n) THEN "defer"
    ELSE "deliver"

\* The exit apply(messages) takes at time now, from the chat's State alone.
Decision(messages, now) ==
    LET key == chat_key(messages[1].parent_chat)
    IN DecisionOf(IF key \in DOMAIN StateMap THEN StateMap[key] ELSE NewState(now),
                  Len(messages), now)

\* Fetcher(chat) with a storage and a filter, from msgList on.
Fetcher(msgList) ==
    /\ Len(pqueue) < MaxQueued
    /\ pqueue' = FetchEnqueue(pqueue, msgList)
    /\ IF msgList = <<>> THEN ApplyEmptyStep ELSE ApplyChatStep(msgList)
    /\ UNCHANGED <<durable, notpvars>>

\* The writer takes the oldest batch: its messages end stored, or flagged Failed.
Written ==
    /\ pqueue # <<>>
    /\ pqueue' = Tail(pqueue)
    /\ \E d \in {"stored", "failed"} : durable' = d
    /\ UNCHANGED <<fvars, notpvars>>

FetchInit == pqueue = <<>> /\ durable = "none"

FetchNext == (\E msgList \in FetchedLists : Fetcher(msgList)) \/ Written \/ Tick

(***************************************************************************)
(* CamoufoxBrowser.__GetBrowser__                                          *)
(***************************************************************************)

BCall(pc, start, tries, attempts, outcome, exc, returned, calls) ==
    [pc |-> pc, start |-> start, tries |-> tries, attempts |-> attempts,
     outcome |-> outcome, exc |-> exc, returned |-> returned, calls |-> calls]

TriesExceeded_6(tries) == tries > 6

\* tries > 5
TriesExceeded(tries) == tries > 5

\* __GetBrowser__(tries) up to its launch: the cached context is returned,
\* tries beyond the limit raise, otherwise AsyncCamoufox(...).__aenter__()
\* is awaited, which is one more launch.
GetBrowserEnter(start, tries, attempts, outcome, calls) ==
    IF browser # None
    THEN BCall("returned", start, tries, attempts, outcome, "none", browser, calls)
    ELSE IF TriesExceeded(tries)
    THEN BCall("raised", start, tries, attempts, outcome, "BrowserException", None, calls)
    ELSE BCall("launch", start, tries, attempts + 1, outcome, "none", None, calls)

\* A caller awaits __GetBrowser__(tries); get_instance() passes no tries,
\* which is tries = 1.
GetBrowser(tries) ==
    /\ bcall.pc # "launch"
    /\ bcall.calls < MaxCalls
    /\ bcall' = GetBrowserEnter(tries, tries, 0, "none", bcall.calls + 1)
    /\ UNCHANGED <<browser, notbvars>>

\* The launch succeeds: self.browser = ... ; return self.browser
LaunchOk ==
    /\ bcall.pc = "launch"
    /\ browser' = Some("context")
    /\ bcall' = [bcall EXCEPT !.pc = "returned", !.outcome = "ok", !.returned = browser']
    /\ UNCHANGED notbvars

\* except camoufox.exceptions.InvalidIP: return await self.__GetBrowser__(tries + 1)
LaunchInvalidIP ==
    /\ bcall.pc = "launch"
    /\ bcall' = GetBrowserEnter(bcall.start, bcall.tries + 1, bcall.attempts,
                                "InvalidIP", bcall.calls)
    /\ UNCHANGED <<browser, notbvars>>

\* except Exception as e: raise BrowserException(...) from e
LaunchError ==
    /\ bcall.pc = "launch"
    /\ bcall' = [bcall EXCEPT !.pc = "raised", !.outcome = "error",
                              !.exc = "BrowserException"]
    /\ UNCHANGED <<browser, notbvars>>

BrowserInit ==
    /\ browser = None
    /\ bcall = BCall("idle", 1, 1, 0, "none", "none", None, 0)

BrowserNext ==
    \/ \E tries \in 1..MaxStart : GetBrowser(tries)
    \/ LaunchOk
    \/ LaunchInvalidIP
    \/ LaunchError

(***************************************************************************)
(* MessageProcessor.Filter, the predecessor of MessageFilter.apply         *)
(***************************************************************************)

\* The batch as MessageProcessor reads it: each Message with its Direction.
Directed(messages, dirs) ==
    [i \in 1..Len(messages) |->
        [id |-> messages[i].id, parent_chat |-> messages[i].parent_chat,
         Direction |-> dirs[i]]]

IsIncoming(msg) == msg.Direction = "in"

\* Message.GetIncomingMessages(MsgList)
GetIncomingMessages(MsgList) == SelectSeq(MsgList, IsIncoming)

\* ChatState(): window_start from the default factory time.time().
NewChatState(t) == [window_start |-> t, count |-> 0, defer_since |-> None, last_seen |-> None]

\* ChatState.reset(): last_seen is kept.
ChatState_reset(st, t) == [st EXCEPT !.window_start = t, !.count = 0, !.defer_since = None]

\* BindChat(chat, messages, now)
BindChat(chat, messages, now) == [chat |-> chat, messages |-> messages, seen_at |-> now]

\* MessageProcessor.Filter(chat, messages) at time now, with t a later reading
\* of time.time(): the ChatState of the chat, the DeferQueue and the list
\* returned.  Configured as the MessageFilter of the model is.
Filter(chat, messages, now, t) ==
    LET key == chat_key(chat)
        st0 == IF key \in DOMAIN ChatState THEN ChatState[key] ELSE NewChatState(t)
        st1 == IF now - st0.window_start >= Window_Seconds
               THEN [st0 EXCEPT !.window_start = now, !.count = 0] ELSE st0
    IN IF Truthy(st1.defer_since) /\ now - st1.defer_since[1] > LimitTime
       THEN [state |-> ChatState_reset(st1, t), queue |-> DeferQueue, ret |-> messages]
       ELSE IF st1.count + Len(GetIncomingMessages(messages)) > Max_Messages_Per_Window
       THEN [state |-> [st1 EXCEPT !.defer_since =
                           IF ~Truthy(st1.defer_since) THEN Some(now) ELSE @],
             queue |-> Put(DeferQueue, BindChat(chat, messages, now)),
             ret |-> <<>>]
       ELSE [state |-> [st1 EXCEPT !.count = @ + Len(messages), !.last_seen = Some(now)],
             queue |-> DeferQueue, ret |-> messages]

\* One fetched batch is handed to both filters at the same time.
TwinApply(messages, dirs) ==
    /\ ApplyChatStep(messages)
    /\ LET chat == messages[1].parent_chat
           r == Filter(chat, Directed(messages, dirs), clock, clock')
       IN /\ r.state.count <= MaxOldCount
          /\ Len(r.queue) <= MaxDefer
          /\ ChatState' = [k \in (DOMAIN ChatState) \cup {chat_key(chat)} |->
                              IF k = chat_key(chat) THEN r.state ELSE ChatState[k]]
          /\ DeferQueue' = r.queue
          /\ Filter_ret' = r.ret
    /\ UNCHANGED notqvars

TwinInit == ChatState = <<>> /\ DeferQueue = <<>> /\ Filter_ret = <<>>

TwinNext ==
    \/ \E messages \in ChatBatches :
         \E dirs \in [1..Len(messages) -> {"in", "out"}] : TwinApply(messages, dirs)
    \/ Tick

(***************************************************************************)
(* MessageFilter.apply, statement by statement, in its callers' threads    *)
(***************************************************************************)

\* The threads that call apply() on the one filter.
Threads == {"t1", "t2"}

\* The batches the threads submit: each within the limit on its own.
ThreadBatches == {m \in ChatBatches : Len(m) <= Max_Messages_Per_Window}

\* A thread outside apply(), its last call has taken exit ret.
Idle(ret) == [pc |-> "idle", messages |-> <<>>, now |-> 0, ret |-> ret]

\* A thread inside apply(messages), at statement pc, its local now.
Inside(pc, messages, now) == [pc |-> pc, messages |-> messages, now |-> now, ret |-> "none"]

AllIdle == \A t \in Threads : threads[t].pc = "idle"

MayBegin_any(t) == TRUE

\* apply() is a plain function with no suspension point: under cooperative
\* scheduling a call begins only when no other call is inside it.
MayBegin(t) == serial => AllIdle

\* The State of the chat the threads submit for.
ThreadState == StateMap[chat_key(FilteredChat)]

Goto(t, pc) == threads' = [threads EXCEPT ![t].pc = pc]

\* chat = ... ; chat_key = ... ; now = time.time() ;
\* state = self.StateMap.setdefault(chat_key, State(None, None))
ThreadBegin(t, messages) ==
    /\ threads[t].pc = "idle"
    /\ MayBegin(t)
    /\ threads' = [threads EXCEPT ![t] = Inside("window", messages, clock)]
    /\ IF chat_key(FilteredChat) \in DOMAIN StateMap
       THEN UNCHANGED <<StateMap, wadmit>>
       ELSE /\ StateMap' = SetState(chat_key(FilteredChat), NewState(clock))
            /\ wadmit' = 0
    /\ UNCHANGED <<Defer_queue, serial, nottvars>>

\* if now - state.window_start >= self.Window_Seconds:
ThreadWindowTest(t) ==
    /\ threads[t].pc = "window"
    /\ Goto(t, IF WindowExpired(ThreadState, threads[t].now) THEN "set_start" ELSE "hard")
    /\ UNCHANGED <<StateMap, Defer_queue, serial, wadmit, nottvars>>

\* state.window_start = now
ThreadSetStart(t) ==
    /\ threads[t].pc = "set_start"
    /\ StateMap' = SetState(chat_key(FilteredChat),
                            [ThreadState EXCEPT !.window_start = threads[t].now])
    /\ wadmit' = 0
    /\ Goto(t, "set_count")
    /\ UNCHANGED <<Defer_queue, serial, nottvars>>

\* state.count = 0
ThreadSetCount(t) ==
    /\ threads[t].pc = "set_count"
    /\ StateMap' = SetState(chat_key(FilteredChat), [ThreadState EXCEPT !.count = 0])
    /\ Goto(t, "hard")
    /\ UNCHANGED <<Defer_queue, serial, wadmit, nottvars>>

\* batch_size = len(messages) ;
\* if state.defer_since and (now - state.defer_since) > self.LimitTime:
ThreadHardTest(t) ==
    /\ threads[t].pc = "hard"
    /\ Goto(t, IF HardDropDue(ThreadState, threads[t].now) THEN "reset" ELSE "limit")
    /\ UNCHANGED <<StateMap, Defer_queue, serial, wadmit, nottvars>>

\* state.reset() ; return messages
ThreadReset(t) ==
    /\ threads[t].pc = "reset"
    /\ StateMap' = SetState(chat_key(FilteredChat), State_reset(ThreadState, clock))
    /\ wadmit' = 0
    /\ threads' = [threads EXCEPT ![t] = Idle("harddrop")]
    /\ UNCHANGED <<Defer_queue, serial, nottvars>>

\* if state.count + batch_size > self.Max_Messages_Per_Window:
ThreadLimitTest(t) ==
    /\ threads[t].pc = "limit"
    /\ Goto(t, IF RateLimitHit(ThreadState, Len(threads[t].messages))
               THEN "set_defer" ELSE "add")
    /\ UNCHANGED <<StateMap, Defer_queue, serial, wadmit, nottvars>>

\* state.defer_since = state.defer_since or now
ThreadSetDefer(t) ==
    /\ threads[t].pc = "set_defer"
    /\ StateMap' = SetState(chat_key(FilteredChat),
            [ThreadState EXCEPT !.defer_since = DeferSinceOr(ThreadState, threads[t].now)])
    /\ Goto(t, "put")
    /\ UNCHANGED <<Defer_queue, serial, wadmit, nottvars>>

\* self.Defer_queue.put(BindData(chat, messages, now)) ; return []
ThreadPut(t) ==
    /\ threads[t].pc = "put"
    /\ Len(Defer_queue) < MaxQueued
    /\ Defer_queue' = Put(Defer_queue,
                          BindData(FilteredChat, threads[t].messages, threads[t].now))
    /\ threads' = [threads EXCEPT ![t] = Idle("defer")]
    /\ UNCHANGED <<StateMap, serial, wadmit, nottvars>>

\* state.count += batch_size
ThreadAdd(t) ==
    /\ threads[t].pc = "add"
    /\ StateMap' = SetState(chat_key(FilteredChat),
            [ThreadState EXCEPT !.count = @ + Len(threads[t].messages)])
    /\ wadmit' = wadmit + Len(threads[t].messages)
    /\ Goto(t, "seen")
    /\ UNCHANGED <<Defer_queue, serial, nottvars>>

\* state.last_seen = now ; return messages
ThreadSeen(t) ==
    /\ threads[t].pc = "seen"
    /\ StateMap' = SetState(chat_key(FilteredChat),
            [ThreadState EXCEPT !.last_seen = Some(threads[t].now)])
    /\ threads' = [threads EXCEPT ![t] = Idle("deliver")]
    /\ UNCHANGED <<Defer_queue, serial, wadmit, nottvars>>

ThreadInit ==
    /\ threads = [t \in Threads |-> Idle("none")]
    /\ serial \in BOOLEAN
    /\ wadmit = 0

ThreadNext ==
    \/ \E t \in Threads : \E messages \in ThreadBatches : ThreadBegin(t, messages)
    \/ \E t \in Threads : ThreadWindowTest(t)
    \/ \E t \in Threads : ThreadSetStart(t)
    \/ \E t \in Threads : ThreadSetCount(t)
    \/ \E t \in Threads : ThreadHardTest(t)
    \/ \E t \in Threads : ThreadReset(t)
    \/ \E t \in Threads : ThreadLimitTest(t)
    \/ \E t \in Threads : ThreadSetDefer(t)
    \/ \E t \in Threads : ThreadPut(t)
    \/ \E t \in Threads : ThreadAdd(t)
    \/ \E t \in Threads : ThreadSeen(t)
    \/ Tick

\* Every component as constructed.
BaseInit ==
    /\ FilterInit /\ StoreInit /\ table = {} /\ dbcall = NoDbCall /\ WriterInit
    /\ poison \in {{}, {1}} /\ transient \in BOOLEAN
    /\ ReadInit
    /\ FetchInit
    /\ BrowserInit
    /\ TwinInit
    /\ ThreadInit

\* A database that may fail any statement for a while and rejects no row.
TransientFaults == poison = {} /\ transient

\* A database that rejects the row of message 1 for good and fails nothing else.
PersistentFault == poison = {1} /\ ~transient

\* The filter alone; the store is not used.
FilterSpecInit == BaseInit /\ impl = "lite" /\ TransientFaults /\ serial

\* Callers' threads, serialized or not.
ThreadSpecInit == BaseInit /\ impl = "lite" /\ TransientFaults

SpecFilter == FilterSpecInit /\ [][FilterNext]_vars

\* Flushes alone, on an open database.
SpecInsert == FilterSpecInit /\ [][Flush]_vars

\* A store with its queue, its writer tasks and one close_db() call.
StoreSpecInit == BaseInit /\ TransientFaults /\ serial

SpecStore == StoreSpecInit /\ [][StoreNext]_vars

\* Flushes with failing statements and unreadable messages.
SpecFlags == FilterSpecInit /\ [][FlushChecked]_vars

\* Task t exists.
Step(t) == t \in DOMAIN tasks

\* The event loop runs every task that can run, and the executor its thread.
FairStore ==
    /\ SpecStore
    /\ \A t \in 1..MaxTasks :
         /\ WF_vars(Step(t) /\ LiteWriterStart(t)) /\ WF_vars(Step(t) /\ LiteWriterGet(t))
         /\ WF_vars(Step(t) /\ LiteWriterSubmit(t)) /\ WF_vars(Step(t) /\ LiteWriterInserted(t))
         /\ WF_vars(Step(t) /\ LiteWriterCancelled(t))
         /\ WF_vars(Step(t) /\ AlchWriterStart(t)) /\ WF_vars(Step(t) /\ AlchWriterInserted(t))
         /\ WF_vars(Step(t) /\ AlchWriterSlept(t)) /\ WF_vars(Step(t) /\ AlchWriterFinal(t))
         /\ WF_vars(Step(t) /\ AlchWriterCancelled(t))
    /\ WF_vars(LiteThreadRun)
    /\ WF_vars(LiteCloseResume)
    /\ WF_vars(AlchCloseResume)

\* The same store on a database that rejects one row for good.
RetrySpecInit == BaseInit /\ PersistentFault /\ serial

SpecRetry == RetrySpecInit /\ [][StoreNext]_vars

\* The event loop runs every task that can run, timeouts included, and the
\* executor its thread.
FairRetry ==
    /\ SpecRetry
    /\ \A t \in 1..MaxTasks :
         /\ WF_vars(Step(t) /\ LiteWriterStart(t)) /\ WF_vars(Step(t) /\ LiteWriterGet(t))
         /\ WF_vars(Step(t) /\ LiteWriterSubmit(t)) /\ WF_vars(Step(t) /\ LiteWriterInserted(t))
         /\ WF_vars(Step(t) /\ LiteWriterCancelled(t))
         /\ WF_vars(Step(t) /\ AlchWriterStart(t)) /\ WF_vars(Step(t) /\ AlchWriterGet(t))
         /\ WF_vars(Step(t) /\ AlchWriterTimeout(t)) /\ WF_vars(Step(t) /\ AlchWriterInserted(t))
         /\ WF_vars(Step(t) /\ AlchWriterSlept(t)) /\ WF_vars(Step(t) /\ AlchWriterFinal(t))
         /\ WF_vars(Step(t) /\ AlchWriterCancelled(t))
    /\ WF_vars(LiteThreadRun)
    /\ WF_vars(LiteCloseResume)
    /\ WF_vars(AlchCloseResume)

\* Fetches of one chat, their batches written in the background.
SpecFetch == FilterSpecInit /\ [][FetchNext]_vars

\* Launches of the browser.
SpecBrowser == FilterSpecInit /\ [][BrowserNext]_vars

\* apply() called from two threads.
SpecThreads == ThreadSpecInit /\ [][ThreadNext]_vars

\* The two filters side by side.
SpecTwin == FilterSpecInit /\ [][TwinNext]_vars

\* Reads between flushes.
SpecRead == FilterSpecInit /\ [][ReadNext]_vars

\* The writer loop of a started SQLAlchemyStorage, with its clock.
SpecWriter == FilterSpecInit /\ [][WriterNext]_vars

(***************************************************************************)
(* Properties of MessageFilter.apply                                       *)
(***************************************************************************)

\* The count the admission decision is made against: 0 for a new chat and
\* for an expired window, else the stored count.
WindowCount(key, now) ==
    IF key \notin DOMAIN StateMap THEN 0
    ELSE IF now - StateMap[key].window_start >= Window_Seconds THEN 0
    ELSE StateMap[key].count

IsMixed(messages) ==
    \E i \in 1..Len(messages) : \E j \in 1..Len(messages) :
        messages[i].parent_chat # messages[j].parent_chat

\* C1: every apply() call that does not raise returns either its whole input
\* batch, in input order, or the empty list; never a partial or reordered one.
C1_AllOrNothing ==
    (fcall.op = "apply" /\ fcall.exit # "raise")
        => (fret = fcall.messages \/ fret = <<>>)

C1_Witness ==
    /\ fcall.exit = "deliver"
    /\ Len(fcall.messages) = Max_Messages_Per_Window
    /\ fret = fcall.messages

\* C2: an apply() call made at a time t for a chat whose defer_since is d, with
\* t - d > LimitTime, returns the full batch whatever its size, and leaves
\* defer_since = None and count = 0; for every d, d = 0 included.
C2_HardDropAnyDeferTime ==
    [][\A m \in ChatBatches :
         (/\ ApplyChat(m)
          /\ chat_key(m[1].parent_chat) \in DOMAIN StateMap
          /\ StateMap[chat_key(m[1].parent_chat)].defer_since # None
          /\ clock - StateMap[chat_key(m[1].parent_chat)].defer_since[1] > LimitTime)
         => (/\ fret' = m
             /\ StateMap'[chat_key(m[1].parent_chat)].defer_since = None
             /\ StateMap'[chat_key(m[1].parent_chat)].count = 0)]_vars

\* C3: when apply() does not hard-drop, it denies the batch exactly when
\* count + len(batch) > Max_Messages_Per_Window (count taken after the window
\* step), and a delivery raises count by exactly len(batch).
C3_StrictThreshold ==
    [][\A m \in ChatBatches :
         (fcall'.messages = m /\ fcall'.exit # "harddrop" /\ ApplyChat(m))
         => LET key == chat_key(m[1].parent_chat)
                c0 == WindowCount(key, clock)
            IN /\ (fret' = <<>>) <=> (c0 + Len(m) > Max_Messages_Per_Window)
               /\ (fret' = m) <=> (c0 + Len(m) <= Max_Messages_Per_Window)
               /\ (fret' = m) => StateMap'[key].count = c0 + Len(m)
               /\ (fret' = <<>>) => StateMap'[key].count = c0]_vars

C3_Witness ==
    /\ fcall.exit = "deliver"
    /\ Len(fcall.messages) < Max_Messages_Per_Window
    /\ StateMap[chat_key(FilteredChat)].count = Max_Messages_Per_Window

\* C4: a denying apply() call appends exactly one entry {chat, whole batch,
\* seen = the call's time} to Defer_queue and returns empty; every other call
\* (delivery, hard drop, empty input, raise) leaves Defer_queue as it was.
C4_OneEntryPerDenial ==
    [][/\ \A m \in ChatBatches :
            (fcall'.messages = m /\ ApplyChat(m))
            => /\ (fret' = <<>>) <=> (fcall'.exit = "defer")
               /\ (fret' = <<>>)
                    => Defer_queue' = Append(Defer_queue,
                           [chat |-> m[1].parent_chat, Messages |-> m, seen |-> clock])
               /\ (fret' # <<>>) => Defer_queue' = Defer_queue
       /\ (fcall'.messages = <<>> /\ ApplyEmpty) => Defer_queue' = Defer_queue
       /\ \A m \in MixedBatches :
            (fcall'.messages = m /\ ApplyRaise(m)) => Defer_queue' = Defer_queue]_vars

C4_Witness ==
    /\ fcall.exit = "defer"
    /\ Len(Defer_queue) = 2
    /\ Len(Defer_queue[2].Messages) > 1
    /\ Defer_queue[2].seen > Defer_queue[1].seen

\* C5: apply() on a batch holding messages of two or more chats raises, and
\* the raising call leaves StateMap (no entry created or changed) and
\* Defer_queue exactly as they were.
C5_MixedBatchRaises ==
    [][/\ (fcall'.op = "apply" /\ IsMixed(fcall'.messages)) => fcall'.exit = "raise"
       /\ fcall'.exit = "raise" => (StateMap' = StateMap /\ Defer_queue' = Defer_queue)]_vars

C5_Witness ==
    /\ fcall.exit = "raise"
    /\ IsMixed(fcall.messages)
    /\ chat_key(FilteredChat) \in DOMAIN StateMap
    /\ Defer_queue # <<>>

\* C19: an apply() call on a known chat that delivers or defers, made at a
\* time now with now - window_start >= Window_Seconds (equality included),
\* leaves window_start = now and has judged the batch against a count of 0:
\* it denies exactly the batches longer than Max_Messages_Per_Window, and
\* count ends at len(batch) on delivery and at 0 on denial; made with
\* now - window_start < Window_Seconds it keeps window_start and adds to the
\* stored count.
C19_WindowReset ==
    [][\A m \in ChatBatches :
         (/\ fcall'.messages = m
          /\ fcall'.exit # "harddrop"
          /\ chat_key(m[1].parent_chat) \in DOMAIN StateMap
          /\ ApplyChat(m))
         => LET key == chat_key(m[1].parent_chat)
                denied == fret' = <<>>
                admitted == IF denied THEN 0 ELSE Len(m)
            IN IF clock - StateMap[key].window_start >= Window_Seconds
               THEN /\ StateMap'[key].window_start = clock
                    /\ denied <=> Len(m) > Max_Messages_Per_Window
                    /\ StateMap'[key].count = admitted
               ELSE /\ StateMap'[key].window_start = StateMap[key].window_start
                    /\ StateMap'[key].count = StateMap[key].count + admitted]_vars

\* C19 witness: a chat whose window began at 0 had a batch denied at time 1
\* and, at time 2 = Window_Seconds, a batch of three denied against the
\* window the call had just emptied.
C19_Witness ==
    /\ fcall.exit = "defer" /\ fcall.now = Some(Window_Seconds)
    /\ Len(fcall.messages) > Max_Messages_Per_Window
    /\ Len(Defer_queue) = 2 /\ Defer_queue[1].seen = 1
    /\ chat_key(FilteredChat) \in DOMAIN StateMap
    /\ StateMap[chat_key(FilteredChat)].defer_since = Some(1)
    /\ StateMap[chat_key(FilteredChat)].window_start = Window_Seconds
    /\ StateMap[chat_key(FilteredChat)].count = 0

\* C20: a denying apply() call on a chat whose defer_since is unset sets it
\* to the call's time, and a denying call on a chat whose defer_since is
\* set, to any time, 0 included, leaves it as it was.
C20_DeferSinceOnce ==
    [][\A m \in ChatBatches :
         (/\ ApplyChat(m)
          /\ fcall'.exit = "defer"
          /\ chat_key(m[1].parent_chat) \in DOMAIN StateMap)
         => LET key == chat_key(m[1].parent_chat)
            IN StateMap'[key].defer_since =
                 IF StateMap[key].defer_since = None THEN Some(clock)
                 ELSE StateMap[key].defer_since]_vars

\* C21: an apply() call on a chat whose defer_since is set and whose
\* deferral age now - defer_since is at least LimitTime, equality included,
\* hard-drops: it returns its batch and leaves defer_since = None, count = 0.
C21_StaleHardDrops ==
    [][\A m \in ChatBatches :
         (/\ ApplyChat(m)
          /\ chat_key(m[1].parent_chat) \in DOMAIN StateMap
          /\ StateMap[chat_key(m[1].parent_chat)].defer_since # None
          /\ clock - StateMap[chat_key(m[1].parent_chat)].defer_since[1] >= LimitTime)
         => (/\ fcall'.exit = "harddrop"
             /\ fret' = m
             /\ StateMap'[chat_key(m[1].parent_chat)].defer_since = None
             /\ StateMap'[chat_key(m[1].parent_chat)].count = 0)]_vars

C23_DeferredStaysDeferred ==
    [][\A m \in ChatBatches :
         (/\ ApplyChat(m)
          /\ chat_key(m[1].parent_chat) \in DOMAIN StateMap
          /\ StateMap[chat_key(m[1].parent_chat)].defer_since # None
          /\ clock - StateMap[chat_key(m[1].parent_chat)].defer_since[1] <= LimitTime)
         => (fcall'.exit = "defer" /\ fret' = <<>>)]_vars

\* The chat has had no batch delivered since the first denial of its running
\* episode: defer_since is set, so no hard drop or reset() has come since,
\* and the last normal delivery, if any, is older.
StarvedSince(st) ==
    /\ st.defer_since # None
    /\ st.last_seen = None \/ st.last_seen[1] < st.defer_since[1]

\* C24: an apply() call for a chat that has had every batch denied since the
\* first denial of its episode, made more than LimitTime after that denial,
\* returns its batch non-empty; whatever the time of that denial (0
\* included) and however long the batch.
C24_NoStarvation ==
    [][\A m \in ChatBatches :
         (/\ ApplyChat(m)
          /\ chat_key(m[1].parent_chat) \in DOMAIN StateMap
          /\ StarvedSince(StateMap[chat_key(m[1].parent_chat)])
          /\ clock - StateMap[chat_key(m[1].parent_chat)].defer_since[1] > LimitTime)
         => (fret' # <<>> /\ fret' = fcall'.messages)]_vars

\* C25: no step of the filter removes or alters an entry of Defer_queue: the
\* queue before a step is a prefix of the queue after it, and a hard drop
\* returns its own batch and leaves the queue exactly as it was.
C25_QueueOnlyGrows ==
    [][/\ Len(Defer_queue') >= Len(Defer_queue)
       /\ SubSeq(Defer_queue', 1, Len(Defer_queue)) = Defer_queue
       /\ \A m \in ChatBatches :
            (fcall'.messages = m /\ fcall'.exit = "harddrop" /\ ApplyChat(m))
            => (fret' = m /\ Defer_queue' = Defer_queue)]_vars

\* C25 witness: a hard drop has returned its batch and the two batches
\* denied before it are still queued, oldest first.
C25_Witness ==
    /\ fcall.exit = "harddrop" /\ fret = fcall.messages
    /\ Len(Defer_queue) = 2
    /\ Defer_queue[1].seen < Defer_queue[2].seen
    /\ Defer_queue[2].seen < fcall.now[1]

\* C29: every chat's count is within 0..Max_Messages_Per_Window in every
\* state, and every step keeps count equal to the sizes of the batches
\* delivered by the normal path since window_start was last set: a step that
\* sets window_start (a new State, a window reset, a hard drop, reset())
\* restarts the sum at 0, a normal delivery adds its batch size, and nothing
\* else changes count; the batch a hard drop returns is not added.
C29_CountIsWindowSum ==
    /\ [](\A key \in DOMAIN StateMap :
            /\ 0 <= StateMap[key].count
            /\ StateMap[key].count <= Max_Messages_Per_Window)
    /\ [][\A key \in DOMAIN StateMap' :
            LET wsSet == \/ key \notin DOMAIN StateMap
                         \/ StateMap'[key].window_start # StateMap[key].window_start
                         \/ StateMap' # StateMap /\ fcall'.exit \in {"reset", "harddrop"}
                base == IF wsSet THEN 0 ELSE StateMap[key].count
                add == IF StateMap' # StateMap /\ fcall'.exit = "deliver"
                       THEN Len(fcall'.messages) ELSE 0
            IN StateMap'[key].count = base + add]_vars

\* C29 witness: in a window that began after time 0, a delivery of one
\* message has brought count to Max_Messages_Per_Window.
C29_Witness ==
    /\ fcall.exit = "deliver" /\ Len(fcall.messages) = 1
    /\ chat_key(FilteredChat) \in DOMAIN StateMap
    /\ StateMap[chat_key(FilteredChat)].window_start >= Window_Seconds
    /\ StateMap[chat_key(FilteredChat)].count = Max_Messages_Per_Window
    /\ StateMap[chat_key(FilteredChat)].last_seen = fcall.now


(***************************************************************************)
(* Properties of the stores                                                *)
(***************************************************************************)

\* The first message of msgs that carries id i.
FirstWithId(msgs, i) ==
    msgs[CHOOSE k \in 1..Len(msgs) :
            msgs[k].data_id = i /\ \A l \in 1..(k - 1) : msgs[l].data_id # i]

\* C6: idempotent insert.  Through every sequence of flushes (each records
\* its call in dbcall) a stored row is never changed or removed, the table
\* holds one row per id, nothing is raised to the writer, and for each id of
\* the batch the table holds the row of its first insert: the row stored
\* before, or else the first message of the batch with that id.
C6_IdempotentInsert ==
    [][dbcall'.impl \in {"lite", "alch"} =>
        /\ \A r \in table : r \in table'
        /\ \A r1 \in table' : \A r2 \in table' : r1.id = r2.id => r1 = r2
        /\ ~dbcall'.raised
        /\ \A k \in 1..Len(dbcall'.msgs) :
             LET i == dbcall'.msgs[k].data_id
                 first == FirstWithId(dbcall'.msgs, i)
             IN /\ HasId(table', i)
                /\ ~HasId(table, i) => [id |-> i, text |-> first.text] \in table'
      ]_vars

\* C6 happens: a batch of the SQLAlchemy store repeats an id with another
\* text, no error reaches the writer and the stored row has the first text.
C6_Witness ==
    /\ dbcall.impl = "alch" /\ ~dbcall.raised
    /\ dbcall.msgs = <<StoreMsg(1, "a"), StoreMsg(1, "b")>>
    /\ [id |-> 1, text |-> "a"] \in table
    /\ [id |-> 1, text |-> "b"] \notin table

\* C7: single writer.  Under every interleaving of start_writer(),
\* enqueue_insert() and close_db() at most one writer task is alive.
C7_SingleWriter == Cardinality(Alive) <= 1

\* C8: close_db() terminates with the connection released.  Whatever the
\* state at the call, a close_db() that has begun leads to close_db()
\* returned with no open connection.
C8_CloseTerminates ==
    (closer.pc # "idle") ~> (closer.pc = "returned" /\ conn # "open")

\* C9: shutdown loses nothing.  When close_db() has returned and released
\* the connection, every message accepted before the call has been handed
\* to an insert attempt.
C9_ShutdownLosesNothing ==
    (closer.pc = "returned" /\ conn = "closed") => accepted \subseteq attempted

\* An insert is being executed: in the executor thread, or in a writer task
\* awaiting the commit.
InsertInFlight ==
    \/ thread # None
    \/ \E t \in 1..Len(tasks) : tasks[t].pc \in {"insert", "final"}

\* C10: no insert after close.  Once close_db() has returned, no insert is
\* in flight against the store.
C10_NoInsertAfterClose == closer.pc = "returned" => ~InsertInFlight


\* enqueue_insert(msgs) of either store with k messages.
Enqueue(k) == LiteEnqueue(k) \/ AlchEnqueue(k)

\* close_db() has been called on the store.
CloseCalled == closer.pc # "idle"

\* C11: enqueue_insert() is a no-op on an empty list and on a store on
\* which close_db() has been called: the queue content is unchanged and no
\* writer task is started.
C11_EnqueueNoOp ==
    [][\A k \in 0..MaxEnqueue :
          (Enqueue(k) /\ (k = 0 \/ CloseCalled)) => UNCHANGED <<queue, tasks>>]_vars

\* C12: enqueue_insert() lazily starts the writer.  After enqueue_insert of
\* a non-empty batch on an open store on which close_db() was not called, a
\* writer task is alive.
C12_LazyWriter ==
    [][\A k \in 1..MaxEnqueue :
          (Enqueue(k) /\ ~CloseCalled /\ conn = "open") => Alive' # {}]_vars

\* C13: writer flush triggers.  A batch that reaches batch_size is flushed
\* at once, so none of that size is kept in hand; a flush of fewer than
\* batch_size messages comes no sooner than flush_interval after its oldest
\* message was enqueued; and no message is kept in hand for longer than
\* flush_interval after it was enqueued.
C13_FlushTriggers ==
    /\ Len(wbatch) < BatchSize
    /\ (wflush # None /\ Len(wflush[1].batch) < BatchSize)
          => wflush[1].at - wflush[1].batch[1] >= FlushInterval
    /\ \A k \in 1..Len(wbatch) : wnow - wbatch[k] <= FlushInterval

\* C14: the Failed flags after an insert.  After a completed insert a
\* message of the batch has its Failed flag set exactly when its id is absent
\* from the store; an insert that ended in an error has set no flag.
C14_FailedIffAbsent ==
    dbcall.impl # "none" =>
        IF dbcall.error THEN dbcall.failed = {}
        ELSE \A k \in 1..Len(dbcall.msgs) :
                 dbcall.msgs[k].data_id \in dbcall.failed
                     <=> ~HasId(table, dbcall.msgs[k].data_id)

\* C15: a storage error does not end the writer.  After a flush has ended
\* in a storage error the writer stays alive until close_db() is called, and
\* every message enqueued after the error whose row the database accepts is
\* persisted, unless close_db() is called or the database is not open.
C15_WriterSurvivesError ==
    /\ []((errors /\ ~CloseCalled) => Alive # {})
    /\ \A i \in 1..MaxMsgs :
         (i \in late /\ i \notin poison)
             ~> (HasId(table, i) \/ CloseCalled \/ conn # "open")

\* C16: failed reads.  A check_message_if_exists() or get_all_messages()
\* whose read fails, before initialization and after close_db() included,
\* does not raise and returns false, respectively the empty list.
C16_FailedReadDefaults ==
    (rcall.op # "none" /\ rcall.failing) =>
        /\ ~rcall.raised
        /\ rcall.value = IF rcall.op = "exists" THEN FALSE ELSE {}

LaunchesOf(c) == c.tries - c.start + 1

\* C18: one __GetBrowser__ call launches at most 5 times and launches only
\* while tries <= 5; every InvalidIP failure has raised tries by one, the
\* next launch following or, with tries beyond 5, a BrowserException
\* instead of a launch; a launch that succeeded returned the context it
\* stored; any other launch error raised BrowserException with tries as
\* they were, so without a retry.
C18_BoundedRetry ==
    /\ bcall.attempts <= 5
    /\ bcall.pc = "launch" => bcall.tries <= 5 /\ bcall.attempts = LaunchesOf(bcall)
    /\ bcall.outcome = "InvalidIP" =>
         /\ bcall.tries > bcall.start
         /\ IF bcall.tries > 5
            THEN /\ bcall.pc = "raised" /\ bcall.exc = "BrowserException"
                 /\ bcall.attempts = bcall.tries - bcall.start
            ELSE bcall.attempts = LaunchesOf(bcall)
    /\ bcall.outcome = "ok" =>
         /\ bcall.pc = "returned" /\ bcall.returned = browser /\ browser # None
         /\ bcall.attempts = LaunchesOf(bcall)
    /\ bcall.outcome = "error" =>
         /\ bcall.pc = "raised" /\ bcall.exc = "BrowserException"
         /\ bcall.attempts = LaunchesOf(bcall)

\* C18 witness: a call with tries = 1 met InvalidIP at each of its five
\* launches and raised BrowserException.
C18_Witness ==
    /\ bcall.pc = "raised" /\ bcall.outcome = "InvalidIP"
    /\ bcall.start = 1 /\ bcall.tries = 6 /\ bcall.attempts = 5

\* C26: a writer that has caught the storage error of a flush holds no batch:
\* the messages of the failed flush are not in its in-memory batch, so no
\* later flush takes them up again.
C26_FailedBatchDiscarded ==
    \A t \in DOMAIN tasks : tasks[t].pc = "sleep" => tasks[t].batch = <<>>

\* The messages of b are in the order of their enqueueing.
InArrivalOrder(b) ==
    \A i \in 1..Len(b) : \A j \in 1..Len(b) : i < j => b[i].data_id < b[j].data_id

\* C27: a message handed to an insert for the first time was enqueued after
\* every message that an earlier flush was handed, and the batch a writer
\* holds or a flush is handed keeps its messages in the order of their
\* enqueueing.
C27_FifoPersistence ==
    /\ [][\A a \in attempted' \ attempted : \A b \in attempted : b < a]_vars
    /\ [](\A t \in DOMAIN tasks : InArrivalOrder(tasks[t].batch))
    /\ [](thread # None => InArrivalOrder(thread[1]))

(***************************************************************************)
(* Properties of the two filters side by side                              *)
(***************************************************************************)

\* The same messages in the same order.
SameBatch(a, b) == Len(a) = Len(b) /\ \A i \in 1..Len(a) : a[i].id = b[i].id

\* C30: after every sequence of batches handed to MessageProcessor.Filter
\* and MessageFilter.apply at the same times, the two have returned the same
\* batch, hold the same deferred entries in the same order and the same
\* window_start, count and defer_since for every chat, and the
\* predecessor's count is at most Max_Messages_Per_Window.
C30_PredecessorEquivalent ==
    /\ SameBatch(Filter_ret, fret)
    /\ Len(DeferQueue) = Len(Defer_queue)
    /\ \A k \in 1..Len(DeferQueue) :
         k <= Len(Defer_queue) =>
            /\ DeferQueue[k].chat = Defer_queue[k].chat
            /\ SameBatch(DeferQueue[k].messages, Defer_queue[k].Messages)
            /\ DeferQueue[k].seen_at = Defer_queue[k].seen
    /\ DOMAIN ChatState = DOMAIN StateMap
    /\ \A key \in DOMAIN ChatState :
         key \in DOMAIN StateMap =>
            /\ ChatState[key].window_start = StateMap[key].window_start
            /\ ChatState[key].count = StateMap[key].count
            /\ ChatState[key].defer_since = StateMap[key].defer_since
            /\ ChatState[key].count <= Max_Messages_Per_Window

(***************************************************************************)
(* Properties of apply() under its callers' scheduling                     *)
(***************************************************************************)

\* C28: when apply() calls run to completion one after another, count never
\* exceeds Max_Messages_Per_Window and, between calls, equals the sizes of
\* the batches admitted since window_start was last set: no admitted batch
\* is lost from it.
C28_SerializedCountExact ==
    (serial /\ chat_key(FilteredChat) \in DOMAIN StateMap)
    => /\ ThreadState.count <= Max_Messages_Per_Window
       /\ AllIdle => ThreadState.count = wadmit

\* C28 witness: with the statements of two apply() calls interleaved, both
\* calls have delivered in one window and more than Max_Messages_Per_Window
\* messages are admitted in it.
C28_Witness ==
    /\ ~serial /\ AllIdle
    /\ \A t \in Threads : threads[t].ret = "deliver"
    /\ chat_key(FilteredChat) \in DOMAIN StateMap
    /\ wadmit > Max_Messages_Per_Window
    /\ ThreadState.count = wadmit

====
